---- MODULE Spec2Model ----
(***************************************************************************)
(* Model of pollerBILL.c: the NGA field-bus master.                        *)
(*                                                                         *)
(* main() maps four shared cells (Resp, End, Nga, NewClient), then forks:  *)
(* the child runs poll() (the Poll Process), the parent runs filter() (the *)
(* Capture Process).  sig_event_handler() is the Frame-Boundary Notifier.  *)
(*                                                                         *)
(* Each process is a program counter plus its locals; one action is one    *)
(* atomic step of one process.  Steps are cut at the accesses to the       *)
(* shared cells, so that every interleaving of those accesses is covered.  *)
(***************************************************************************)
EXTENDS Integers, Sequences, FiniteSets, TLC

-----------------------------------------------------------------------------
(* Program constants                                                       *)

\* #define IDLE_POLL 150
IDLE_POLL == 150

\* #define MAX_RESPONSE_TIME 600
MAX_RESPONSE_TIME == 600

\* #define OUR_MQTT_PORT 1883
OUR_MQTT_PORT == 1883

\* topo->core_version = 1
CORE_VERSION == 1

\* the signal number the handler tests for (n == 44)
SIGNAL_NUMBER == 44

\* the length of an Announce frame (n == 60)
ANNOUNCE_LEN == 60

\* the Announce marker byte (buffer[28] == 0x55)
ANNOUNCE_MARKER == 85

\* unsigned char serial_number[18]
SN_LEN == 18

\* sizeof(Topology_Msg_st): 12 one-byte fields
TOPO_HDR_LEN == 12

\* sizeof(Topology_Dev_st): 2 + 1 + 18 + 1 one-byte fields
TOPO_DEV_LEN == 22

-----------------------------------------------------------------------------
(* Bounds of the model                                                     *)

\* Capacity of the Clients table.  The source sets MAX_CLIENTS to 64
\* (line 39); every loop over the table is written against this name, and
\* the model runs the same loops over a shorter table.
MAX_CLIENTS == 2

-----------------------------------------------------------------------------
(* Bytes and wire formats                                                  *)

Slots == 0 .. (MAX_CLIENTS - 1)

\* x & 0x00ff after x >> (8*k)
ByteOf(x, k) == (x \div (256 ^ k)) % 256

Zeros(n) == [k \in 1 .. n |-> 0]

\* ASCII "SN000d" padded with zero bytes to 18 bytes
SerialOf(d) == <<83, 78, 48, 48, 48, 48 + d>> \o Zeros(SN_LEN - 6)

\* A captured frame, reduced to the fields filter() reads:
\*   addr.sll_pkttype, n (the length recvfrom returned), buffer[28],
\*   buffer[29], buffer[30] and buffer[32..49].
Frame(pkttype, n, b28, b29, b30, sn) ==
    [pkttype |-> pkttype, n |-> n, b28 |-> b28, b29 |-> b29, b30 |-> b30, sn |-> sn]

\* The Announce of end device d: IP 169.254.10.(19+d), so device 1 has the
\* suffix (10, 20).  buffer[30] is the next-to-last octet, buffer[29] the last.
AnnounceOf(d) == Frame("HOST", ANNOUNCE_LEN, ANNOUNCE_MARKER, 19 + d, 10, SerialOf(d))

\* An inbound frame that is no Announce (a poll response): another length.
ResponseFrame == Frame("HOST", 40, 0, 0, 0, Zeros(SN_LEN))

\* A frame this host transmitted (a poll datagram: 28 header bytes + 4).
OutgoingFrame == Frame("OUTGOING", 32, 169, 254, 0, Zeros(SN_LEN))

\* A 60-byte frame this host transmitted whose bytes from offset 28 on are
\* those of the Announce of end device 1.
OutgoingAnnounce == [AnnounceOf(1) EXCEPT !.pkttype = "OUTGOING"]

NoFrame == Frame("NONE", 0, 0, 0, 0, Zeros(SN_LEN))

\* The end devices that send Announces while the model runs.
Devices == {1, 2}

Frames == {AnnounceOf(d) : d \in Devices} \cup {ResponseFrame, OutgoingFrame, OutgoingAnnounce}

\* gettimeofday() samples: <<tv_sec, tv_usec>>
TimeSamples == {<<1762000000, 0>>, <<1762000004, 999999>>}

\* Payloads the driver may attach to the frame-boundary signal (si_int)
SigPayloads == {0, 1}

-----------------------------------------------------------------------------
VARIABLES
    Resp,           \* *Resp: response_started
    End,            \* *End: frame_ended
    Nga,            \* *Nga: poll_armed
    NewClient,      \* NewClient[0..20]: the Discovery Mailbox
    Clients,        \* Clients[0..MAX_CLIENTS-1]: the Device Record table
    DeviceCount,    \* poll(): unsigned char DeviceCount
    last_topology,  \* poll(): 0 until the first broadcast, then a time stamp
    topo,           \* the bytes of the last datagram sent from *topo (xmit_len of them)
    i,              \* poll(): loop index of the poll round
    idle,           \* poll(): milliseconds waited for the current device
    pollpc,         \* where the Poll Process is
    cappc,          \* where the Capture Process is
    buffer,         \* filter(): the frame being processed
    exit_status,    \* <<code>> once the Capture Process has called _exit(code), <<>> before
    setup_failed,   \* history: the set-up call of filter() that failed, "none" when none has
    siginfo,        \* <<si_int>> of the signal delivered to the Poll Process, <<>> before one is
    staleEnd,       \* history: *End holds a 1 written before the current device was armed
    writers,        \* history: for each shared cell, the processes that have written it since the fork
    sentClients,    \* history: the Clients table as it was at the last broadcast
    sentTime        \* history: <<tv_sec, tv_usec>> gettimeofday() gave at the last broadcast, <<>> before one

vars == <<Resp, End, Nga, NewClient, Clients, DeviceCount, last_topology, topo,
          i, idle, pollpc, cappc, buffer, exit_status, setup_failed, siginfo, staleEnd,
          writers, sentClients, sentTime>>

shared   == <<Resp, End, Nga, NewClient>>
pollvars == <<Clients, DeviceCount, last_topology, topo, i, idle, pollpc, sentClients, sentTime>>
capvars  == <<cappc, buffer, exit_status, setup_failed>>

-----------------------------------------------------------------------------
(* State after main() has mapped and zeroed the shared cells and forked    *)

\* The shared cells: *Resp, *End, *Nga, and the mailbox as NewClient[0]
\* (pending), NewClient[1..2] (ip_suffix) and NewClient[3..20] (serial_number).
Cells == {"Resp", "End", "Nga", "pending", "ip_suffix", "serial_number"}

\* Process proc has executed a store to each cell of cs.
Wrote(w, cs, proc) == [c \in Cells |-> IF c \in cs THEN w[c] \cup {proc} ELSE w[c]]

FreeSlot == [used |-> 0, next_to_last |-> 0, last |-> 0, sn |-> Zeros(SN_LEN)]

Init ==
    /\ Resp = 0
    /\ End = 0
    /\ Nga = 0
    /\ NewClient = [k \in 0 .. 20 |-> 0]
    /\ Clients = [s \in Slots |-> FreeSlot]
    /\ DeviceCount = 0
    /\ last_topology = 0
    /\ topo = <<>>
    /\ i = 0
    /\ idle = 0
    /\ pollpc = "drain"
    /\ cappc = "socket"
    /\ buffer = NoFrame
    /\ exit_status = <<>>
    /\ setup_failed = "none"
    /\ siginfo = <<>>
    /\ staleEnd = FALSE
    /\ writers = [c \in Cells |-> {}]
    /\ sentClients = [s \in Slots |-> FreeSlot]
    /\ sentTime = <<>>

\* The record the drain leaves for end device d when its Announce went
\* through the mailbox whole.
RecordOf(d) == [used |-> 1, next_to_last |-> 10, last |-> 19 + d, sn |-> SerialOf(d)]

\* The mailbox after the Announce of end device d has been published and drained.
DrainedMailbox(d) ==
    [k \in 0 .. 20 |-> IF k = 0 THEN 0
                       ELSE IF k = 1 THEN 10
                       ELSE IF k = 2 THEN 19 + d
                       ELSE SerialOf(d)[k - 2]]

-----------------------------------------------------------------------------
(* filter(): the Capture Process                                           *)

\* if (n == 60) if (buffer[28] == 0x55)
IsAnnounce(f) == f.n = ANNOUNCE_LEN /\ f.b28 = ANNOUNCE_MARKER

\* Variant of EndAfterFrame: a frame this host sent resets *End.
EndAfterFrame_outgoingClears(f, end) == IF f.pkttype = "OUTGOING" THEN 0 ELSE 1

\* if (addr.sll_pkttype == PACKET_OUTGOING) printf("OUT:\n"); else *End = 1;
EndAfterFrame(f, end) == IF f.pkttype = "OUTGOING" THEN end ELSE 1

\* Variant of MailboxFree: the test of NewClient[0] left out.
MailboxFree_untested(nc) == TRUE

\* if (NewClient[0] == 0)
MailboxFree(nc) == nc[0] = 0

\* NewClient[1] = buffer[30]; NewClient[2] = buffer[29]; NewClient[0] = 1;
PublishSuffix(nc, f) == [nc EXCEPT ![1] = f.b30, ![2] = f.b29, ![0] = 1]

\* memcpy(&NewClient[3], &buffer[32], 18);
PublishSerial(nc, f) == [k \in 0 .. 20 |-> IF k >= 3 THEN f.sn[k - 2] ELSE nc[k]]

\* The calls filter() makes before its receive loop whose failure it tests,
\* in the order it makes them: socket(), bind(), ioctl(SIOCGIFFLAGS),
\* ioctl(SIOCSIFFLAGS), setsockopt(SO_BINDTODEVICE), setsockopt(SO_ATTACH_FILTER).
SetupCalls == <<"socket", "bind", "SIOCGIFFLAGS", "SIOCSIFFLAGS",
                "SO_BINDTODEVICE", "SO_ATTACH_FILTER">>

SetupIndex(call) == CHOOSE k \in 1 .. Len(SetupCalls) : SetupCalls[k] = call

\* Where filter() goes on after a set-up call that succeeded.
AfterSetup(call) ==
    IF SetupIndex(call) < Len(SetupCalls) THEN SetupCalls[SetupIndex(call) + 1]
    ELSE "recvfrom"

\* Variant of AfterFailure: the result of the call is not tested, as that of
\* ioctl(SIOCGIFINDEX) is not.
AfterFailure_unchecked(call) == <<AfterSetup(call), <<>>>>

\* perror(...); close(sock); _exit(1);  -- where the process is and its exit status
AfterFailure(call) == <<"exited", <<1>>>>

\* One set-up call of filter(), which succeeds (ok) or fails.
CapSetup(ok) ==
    /\ cappc \in {SetupCalls[k] : k \in 1 .. Len(SetupCalls)}
    /\ IF ok
       THEN /\ cappc' = AfterSetup(cappc)
            /\ UNCHANGED <<exit_status, setup_failed>>
       ELSE /\ cappc' = AfterFailure(cappc)[1]
            /\ exit_status' = AfterFailure(cappc)[2]
            /\ setup_failed' = cappc
    /\ UNCHANGED <<buffer, siginfo, staleEnd>>
    /\ UNCHANGED shared
    /\ UNCHANGED pollvars
    /\ UNCHANGED writers

\* The current device is armed: *Nga = 1 has run for it and its wait is not over.
DeviceArmed == pollpc \in {"send", "msleep"}

\* n = recvfrom(...) returned a frame; the direction test and the write of *End.
\* A frame that is no Announce is done with here.
CapRecv(f) ==
    /\ cappc = "recvfrom"
    /\ End' = EndAfterFrame(f, End)
    /\ staleEnd' = IF f.pkttype = "OUTGOING" THEN staleEnd ELSE ~DeviceArmed
    /\ IF IsAnnounce(f)
       THEN cappc' = "announce" /\ buffer' = f
       ELSE cappc' = "recvfrom" /\ buffer' = NoFrame
    /\ UNCHANGED <<Resp, Nga, NewClient, siginfo, exit_status, setup_failed>>
    /\ UNCHANGED pollvars
    /\ writers' = IF f.pkttype = "OUTGOING" THEN writers ELSE Wrote(writers, {"End"}, "Capture")

\* The test of the mailbox and, when it is free, the writes of NewClient[1],
\* NewClient[2] and NewClient[0].
CapAnnounce ==
    /\ cappc = "announce"
    /\ IF MailboxFree(NewClient)
       THEN /\ NewClient' = PublishSuffix(NewClient, buffer)
            /\ cappc' = "memcpy"
            /\ buffer' = buffer
       ELSE /\ NewClient' = NewClient
            /\ cappc' = "recvfrom"
            /\ buffer' = NoFrame
    /\ UNCHANGED <<Resp, End, Nga, siginfo, staleEnd, exit_status, setup_failed>>
    /\ UNCHANGED pollvars
    /\ writers' = IF MailboxFree(NewClient) THEN Wrote(writers, {"ip_suffix", "pending"}, "Capture")
                  ELSE writers

\* The copy of the serial number, after NewClient[0] has been set.
CapMemcpy ==
    /\ cappc = "memcpy"
    /\ NewClient' = PublishSerial(NewClient, buffer)
    /\ cappc' = "recvfrom"
    /\ buffer' = NoFrame
    /\ UNCHANGED <<Resp, End, Nga, siginfo, staleEnd, exit_status, setup_failed>>
    /\ UNCHANGED pollvars
    /\ writers' = Wrote(writers, {"serial_number"}, "Capture")

-----------------------------------------------------------------------------
(* poll(): the Poll Process                                                *)

UsedSlots(clients) == {s \in Slots : clients[s].used # 0}

Min(S) == CHOOSE x \in S : \A y \in S : x <= y

\* Variant of Existing: the two octets compared crosswise.
Existing_crossed(clients, nc) ==
    \E s \in UsedSlots(clients) :
        clients[s].next_to_last = nc[2] /\ clients[s].last = nc[1]

\* for (existing = 0, i = 0; i < MAX_CLIENTS; i++) if (Clients[i].used != 0)
\*   if (Clients[i].next_to_last == NewClient[1] && Clients[i].last == NewClient[2])
Existing(clients, nc) ==
    \E s \in UsedSlots(clients) :
        clients[s].next_to_last = nc[1] /\ clients[s].last = nc[2]

Max(S) == CHOOSE x \in S : \A y \in S : x >= y

\* Variant of FirstFree: the search run from the top of the table down.
FirstFree_fromTop(clients) ==
    IF UsedSlots(clients) = Slots THEN MAX_CLIENTS ELSE Max(Slots \ UsedSlots(clients))

\* for (i = 0; i < MAX_CLIENTS; i++) if (Clients[i].used == 0) ... break;
\* the slot the loop stops at, MAX_CLIENTS when it runs to its end
FirstFree(clients) ==
    IF UsedSlots(clients) = Slots THEN MAX_CLIENTS ELSE Min(Slots \ UsedSlots(clients))

\* Clients[i].next_to_last = NewClient[1]; Clients[i].last = NewClient[2];
\* memcpy(Clients[i].sn, &NewClient[3], 18); Clients[i].used = 1;
Insert(clients, s, nc) ==
    [clients EXCEPT ![s] = [used |-> 1, next_to_last |-> nc[1], last |-> nc[2],
                            sn |-> [k \in 1 .. SN_LEN |-> nc[k + 2]]]]

\* DeviceCount++ on an unsigned char
Increment(count) == (count + 1) % 256

\* Variant of ClientsAfterDrain: a full table is not noticed and the last
\* slot is written over.
ClientsAfterDrain_overwrite(clients, nc) ==
    IF nc[0] # 0 /\ ~Existing(clients, nc)
    THEN Insert(clients, IF FirstFree(clients) < MAX_CLIENTS THEN FirstFree(clients)
                         ELSE MAX_CLIENTS - 1, nc)
    ELSE clients

\* Variant of ClientsAfterDrain: an Announce of a suffix the table has is
\* copied over the record that has it.
ClientsAfterDrain_refresh(clients, nc) ==
    IF nc[0] # 0 /\ Existing(clients, nc)
    THEN Insert(clients, CHOOSE s \in UsedSlots(clients) :
                            clients[s].next_to_last = nc[1] /\ clients[s].last = nc[2], nc)
    ELSE IF nc[0] # 0 /\ FirstFree(clients) < MAX_CLIENTS
    THEN Insert(clients, FirstFree(clients), nc)
    ELSE clients

\* The discovery drain, lines 561-593.
ClientsAfterDrain(clients, nc) ==
    IF nc[0] # 0 /\ ~Existing(clients, nc) /\ FirstFree(clients) < MAX_CLIENTS
    THEN Insert(clients, FirstFree(clients), nc)
    ELSE clients

CountAfterDrain(count, clients, nc) ==
    IF nc[0] # 0 /\ ~Existing(clients, nc) /\ FirstFree(clients) < MAX_CLIENTS
    THEN Increment(count)
    ELSE count

\* NewClient[0] = 0 inside if (NewClient[0] != 0)
MailboxAfterDrain(nc) == [nc EXCEPT ![0] = 0]

\* Variant of NextUsed: the test of Clients[i].used left out of the loop.
NextUsed_untested(clients, s) == IF s < MAX_CLIENTS THEN s ELSE MAX_CLIENTS

\* The poll round's loop head: the first used slot at or after s,
\* MAX_CLIENTS when the loop runs to its end.
NextUsed(clients, s) ==
    IF \E u \in UsedSlots(clients) : u >= s
    THEN Min({u \in UsedSlots(clients) : u >= s})
    ELSE MAX_CLIENTS

RoundPc(clients, s) == IF NextUsed(clients, s) < MAX_CLIENTS THEN "clrResp" ELSE "disarm"

\* Variant of Descriptor: the two address octets in the other order.
Descriptor_swapped(c) == <<c.next_to_last, c.last, 0>> \o c.sn \o <<0>>

\* One Topology_Dev_st: ip_lsb, ip_msb, duplicate_flag, serial_number[18],
\* reserved1 (never written after calloc)
Descriptor(c) == <<c.last, c.next_to_last, 0>> \o c.sn \o <<0>>

RECURSIVE Descriptors(_, _)
Descriptors(clients, s) ==
    IF s >= MAX_CLIENTS THEN <<>>
    ELSE (IF clients[s].used # 0 THEN Descriptor(clients[s]) ELSE <<>>)
         \o Descriptors(clients, s + 1)

\* m = tv.tv_usec * 1000 in an unsigned int; gettimeofday() gives
\* 0 <= tv_usec < 10^6, so the product stays below 2^32 and never wraps
Nanos(tv_usec) == tv_usec * 1000

\* The Topology_Msg_st header as lines 605-624 fill it.
TopologyHeader(tv, count) ==
    << ByteOf(tv[1], 0), ByteOf(tv[1], 1), ByteOf(tv[1], 2), ByteOf(tv[1], 3),
       ByteOf(Nanos(tv[2]), 0), ByteOf(Nanos(tv[2]), 1),
       ByteOf(Nanos(tv[2]), 2), ByteOf(Nanos(tv[2]), 3),
       ByteOf(OUR_MQTT_PORT, 0), ByteOf(OUR_MQTT_PORT, 1),
       count, CORE_VERSION >>

\* The xmit_len bytes handed to sendto().
TopologyMsg(tv, count, clients) == TopologyHeader(tv, count) \o Descriptors(clients, 0)

\* Variant of WaitContinues: both ceilings tested with <= .
WaitContinues_inclusive(resp, ms) ==
    IF resp = 0 THEN ms <= IDLE_POLL ELSE ms <= MAX_RESPONSE_TIME

\* while (*Resp == 0 ? idle < IDLE_POLL : idle < MAX_RESPONSE_TIME)
WaitContinues(resp, ms) == IF resp = 0 THEN ms < IDLE_POLL ELSE ms < MAX_RESPONSE_TIME

\* Variant of ResponseComplete: *End tested alone.
ResponseComplete_endOnly(end, resp) == end # 0

\* if (*End != 0 && *Resp != 0) break;
ResponseComplete(end, resp) == end # 0 /\ resp # 0

\* if (NewClient[0] != 0) { ... NewClient[0] = 0; }
PollDrain ==
    /\ pollpc = "drain"
    /\ Clients' = ClientsAfterDrain(Clients, NewClient)
    /\ DeviceCount' = CountAfterDrain(DeviceCount, Clients, NewClient)
    /\ NewClient' = IF NewClient[0] # 0 THEN MailboxAfterDrain(NewClient) ELSE NewClient
    /\ pollpc' = "topology"
    /\ UNCHANGED <<Resp, End, Nga, last_topology, topo, i, idle, siginfo, staleEnd, sentClients, sentTime>>
    /\ UNCHANGED capvars
    /\ writers' = IF NewClient[0] # 0 THEN Wrote(writers, {"pending"}, "Poll") ELSE writers

\* if (now - last_topology > TOPOLOGY_SECS) taken: build, send, msleep(500),
\* then enter the poll round.  The first test always succeeds: last_topology
\* is 0 and now is the time since 1970.
PollBroadcast(tv) ==
    /\ pollpc = "topology"
    /\ topo' = TopologyMsg(tv, DeviceCount, Clients)
    /\ last_topology' = 1
    /\ sentClients' = Clients
    /\ sentTime' = tv
    /\ i' = NextUsed(Clients, 0)
    /\ pollpc' = RoundPc(Clients, 0)
    /\ UNCHANGED <<Clients, DeviceCount, idle, siginfo, staleEnd>>
    /\ UNCHANGED shared
    /\ UNCHANGED capvars
    /\ UNCHANGED writers

\* The same test not taken.
PollNoBroadcast ==
    /\ pollpc = "topology"
    /\ last_topology # 0
    /\ i' = NextUsed(Clients, 0)
    /\ pollpc' = RoundPc(Clients, 0)
    /\ UNCHANGED <<Clients, DeviceCount, last_topology, topo, idle, siginfo, staleEnd, sentClients, sentTime>>
    /\ UNCHANGED shared
    /\ UNCHANGED capvars
    /\ UNCHANGED writers

\* mess[0..3] = ...; *Resp = 0;
PollClearResp ==
    /\ pollpc = "clrResp"
    /\ Resp' = 0
    /\ pollpc' = "clrEnd"
    /\ UNCHANGED <<End, Nga, NewClient, siginfo, staleEnd>>
    /\ UNCHANGED <<Clients, DeviceCount, last_topology, topo, i, idle, sentClients, sentTime>>
    /\ UNCHANGED capvars
    /\ writers' = Wrote(writers, {"Resp"}, "Poll")

\* *End = 0;
PollClearEnd ==
    /\ pollpc = "clrEnd"
    /\ End' = 0
    /\ staleEnd' = FALSE
    /\ pollpc' = "arm"
    /\ UNCHANGED <<Resp, Nga, NewClient, siginfo>>
    /\ UNCHANGED <<Clients, DeviceCount, last_topology, topo, i, idle, sentClients, sentTime>>
    /\ UNCHANGED capvars
    /\ writers' = Wrote(writers, {"End"}, "Poll")

\* *Nga = 1;
PollArm ==
    /\ pollpc = "arm"
    /\ Nga' = 1
    /\ pollpc' = "send"
    /\ UNCHANGED <<Resp, End, NewClient, siginfo, staleEnd>>
    /\ UNCHANGED <<Clients, DeviceCount, last_topology, topo, i, idle, sentClients, sentTime>>
    /\ UNCHANGED capvars
    /\ writers' = Wrote(writers, {"Nga"}, "Poll")

\* sendto(mess), tcdrain, tcflush, idle = 0, and the first test of the
\* while condition.
PollSend ==
    /\ pollpc = "send"
    /\ idle' = 0
    /\ pollpc' = IF WaitContinues(Resp, 0) THEN "msleep" ELSE "report"
    /\ UNCHANGED <<Clients, DeviceCount, last_topology, topo, i, siginfo, staleEnd, sentClients, sentTime>>
    /\ UNCHANGED shared
    /\ UNCHANGED capvars
    /\ UNCHANGED writers

\* One turn of the wait: msleep(1); idle++; the break test; the while test.
PollWait ==
    /\ pollpc = "msleep"
    /\ idle' = idle + 1
    /\ pollpc' = IF ResponseComplete(End, Resp) THEN "report"
                 ELSE IF WaitContinues(Resp, idle + 1) THEN "msleep"
                 ELSE "report"
    /\ UNCHANGED <<Clients, DeviceCount, last_topology, topo, i, siginfo, staleEnd, sentClients, sentTime>>
    /\ UNCHANGED shared
    /\ UNCHANGED capvars
    /\ UNCHANGED writers

\* if (*Resp == 1) printf("X"); then i++ and the loop head.
PollReport ==
    /\ pollpc = "report"
    /\ i' = NextUsed(Clients, i + 1)
    /\ pollpc' = RoundPc(Clients, i + 1)
    /\ UNCHANGED <<Clients, DeviceCount, last_topology, topo, idle, siginfo, staleEnd, sentClients, sentTime>>
    /\ UNCHANGED shared
    /\ UNCHANGED capvars
    /\ UNCHANGED writers

\* *Nga = 0; after the round, then back to the top of while (1).
PollDisarm ==
    /\ pollpc = "disarm"
    /\ Nga' = 0
    /\ pollpc' = "drain"
    /\ UNCHANGED <<Resp, End, NewClient, siginfo, staleEnd>>
    /\ UNCHANGED <<Clients, DeviceCount, last_topology, topo, i, idle, sentClients, sentTime>>
    /\ UNCHANGED capvars
    /\ writers' = Wrote(writers, {"Nga"}, "Poll")

-----------------------------------------------------------------------------
(* sig_event_handler(): the Frame-Boundary Notifier                        *)

\* The handler's effect on <<*Resp, *End>>.
sig_event_handler(n, si_int) ==
    IF n = SIGNAL_NUMBER /\ Nga = 1
    THEN (IF si_int = 0 THEN <<1, End>> ELSE <<Resp, 1>>)
    ELSE <<Resp, End>>

\* What signal 44 does to the Poll Process.  poll() fills in act
\* (act.sa_sigaction = sig_event_handler) but the call that would install it,
\* sigaction(44, &act, NULL), is commented out: the disposition stays the
\* default one, which for a real-time signal ends the process.
SignalDisposition == "SIG_DFL"

\* Variant of DriverSignal: the handler runs and does not test *Nga.
DriverSignal_unguarded(v) ==
    /\ pollpc # "killed"
    /\ siginfo' = <<v>>
    /\ Resp' = IF v = 0 THEN 1 ELSE Resp
    /\ End' = IF v = 0 THEN End ELSE 1
    /\ staleEnd' = IF v = 0 THEN staleEnd ELSE ~DeviceArmed
    /\ UNCHANGED <<Nga, NewClient>>
    /\ UNCHANGED pollvars
    /\ UNCHANGED capvars
    /\ writers' = Wrote(writers, {IF v = 0 THEN "Resp" ELSE "End"}, "Notifier")

\* The driver raises signal 44 with payload v for the registered task.
DriverSignal(v) ==
    /\ pollpc # "killed"
    /\ siginfo' = <<v>>
    /\ IF SignalDisposition = "sig_event_handler"
       THEN /\ Resp' = sig_event_handler(SIGNAL_NUMBER, v)[1]
            /\ End' = sig_event_handler(SIGNAL_NUMBER, v)[2]
            /\ staleEnd' = IF End' # End THEN ~DeviceArmed ELSE staleEnd
            /\ writers' = IF Nga = 1
                           THEN Wrote(writers, {IF v = 0 THEN "Resp" ELSE "End"}, "Notifier")
                           ELSE writers
            /\ UNCHANGED pollvars
       ELSE /\ pollpc' = "killed"
            \* the process and its private memory are gone
            /\ Clients' = [s \in Slots |-> FreeSlot]
            /\ sentClients' = [s \in Slots |-> FreeSlot]
            /\ sentTime' = <<>>
            /\ DeviceCount' = 0
            /\ last_topology' = 0
            /\ topo' = <<>>
            /\ i' = 0
            /\ idle' = 0
            /\ UNCHANGED <<Resp, End, staleEnd, writers>>
    /\ UNCHANGED <<Nga, NewClient>>
    /\ UNCHANGED capvars

-----------------------------------------------------------------------------
\* A later state of the same program: a table that filled up earlier.  End
\* devices 3, 4, ... (one per slot) announced themselves one after the other
\* and were recorded, a broadcast listed them all, the poll round that
\* followed timed out on every one of them, and they announce no more.  The
\* Poll Process is back at the top of its loop.
InitFull ==
    /\ Resp = 0
    /\ End = 0
    /\ Nga = 0
    /\ NewClient = DrainedMailbox(MAX_CLIENTS + 2)
    /\ Clients = [s \in Slots |-> RecordOf(s + 3)]
    /\ DeviceCount = MAX_CLIENTS
    /\ last_topology = 1
    /\ \E tv \in TimeSamples :
          /\ topo = TopologyMsg(tv, MAX_CLIENTS, [s \in Slots |-> RecordOf(s + 3)])
          /\ sentTime = tv
    /\ i = MAX_CLIENTS
    /\ idle = IDLE_POLL
    /\ pollpc = "drain"
    /\ cappc = "recvfrom"
    /\ buffer = NoFrame
    /\ exit_status = <<>>
    /\ setup_failed = "none"
    /\ siginfo = <<>>
    /\ staleEnd = FALSE
    /\ writers = [c \in Cells |-> IF c \in {"ip_suffix", "serial_number"} THEN {"Capture"}
                                ELSE IF c \in {"End", "pending"} THEN {"Capture", "Poll"}
                                ELSE {"Poll"}]
    /\ sentClients = [s \in Slots |-> RecordOf(s + 3)]

-----------------------------------------------------------------------------
Capture ==
    \/ \E f \in Frames : CapRecv(f)
    \/ CapAnnounce
    \/ CapMemcpy

Poll ==
    \/ PollDrain
    \/ \E tv \in TimeSamples : PollBroadcast(tv)
    \/ PollNoBroadcast
    \/ PollClearResp
    \/ PollClearEnd
    \/ PollArm
    \/ PollSend
    \/ PollWait
    \/ PollReport
    \/ PollDisarm

Notifier == \E v \in SigPayloads : DriverSignal(v)

CaptureSetup == \E ok \in BOOLEAN : CapSetup(ok)

\* The steps of the program once the Capture Process is in its receive loop.
Running == Capture \/ Poll \/ Notifier

Next == CaptureSetup \/ Running

Spec == Init /\ [][Next]_vars

\* The scheduler lets each process that can take a step take one in the end.
\* The arrival of a frame and the raising of the signal are up to the bus and
\* the driver: nothing makes them happen.
SpecFair ==
    /\ Init
    /\ [][Next]_vars
    /\ WF_vars(Poll)
    /\ WF_vars(CaptureSetup \/ CapAnnounce \/ CapMemcpy)

\* From InitFull the set-up of the Capture Process is over.
SpecFull == InitFull /\ [][Running]_vars

-----------------------------------------------------------------------------
(* Properties                                                              *)

\* The steps the properties below speak of.
WaitEnds    == pollpc = "msleep" /\ pollpc' = "report"
DrainStep   == pollpc = "drain" /\ pollpc' = "topology"
SignalStep  == siginfo = <<>> /\ siginfo' # <<>>
AnnounceHandled == cappc = "announce" /\ cappc' # "announce"

InUse(clients) == {s \in Slots : clients[s].used # 0}
Suffix(c) == <<c.next_to_last, c.last>>
Pending == NewClient[0] # 0
MailboxSuffix == <<NewClient[1], NewClient[2]>>
InTable(clients, sfx) == \E s \in InUse(clients) : Suffix(clients[s]) = sfx

\* C1: a device poll wait never takes more than 600 one-millisecond steps;
\* while response_started is clear it has taken fewer than 150, and a wait that
\* ends with response_started still clear has taken exactly 150 (Scenario D);
\* with response_started set it is over by step 600 (Scenario C).
C1_WaitWithinBudget ==
    /\ pollpc = "msleep" => idle < 600
    /\ pollpc = "report" => idle <= 600
    /\ (pollpc = "msleep" /\ Resp = 0) => idle < 150
    /\ (pollpc = "report" /\ Resp = 0) => idle = 150

\* A wait has ended at the idle ceiling with neither flag set.
C1_Witness == pollpc = "report" /\ Resp = 0 /\ End = 0 /\ idle = 150

\* C2: a check that finds response_started and frame_ended both set ends the
\* wait at once, and a wait ends only so or with its budget used up: with
\* response_started clear it ends at step 150 and not before, whatever
\* frame_ended holds.
C2_DualCheck ==
    /\ [][(pollpc = "msleep" /\ idle' = idle + 1 /\ End # 0 /\ Resp # 0)
            => pollpc' = "report"]_vars
    /\ [][WaitEnds => \/ (End # 0 /\ Resp # 0)
                      \/ (Resp = 0 /\ idle' = 150)
                      \/ (Resp # 0 /\ idle' = 600)]_vars

\* Half way through a wait, frame_ended has been set since the device was
\* armed, response_started is clear, and the wait goes on.
C2_Witness == pollpc = "msleep" /\ idle = 75 /\ End = 1 /\ ~staleEnd /\ Resp = 0

\* C3 (as claimed): during a device's wait, frame_ended never holds a value
\* that was written before that device was armed, and response_started, which
\* nothing sets before the arming, is clear when the wait begins.
C3_NoStaleFlagInWait ==
    /\ pollpc = "msleep" => ~(End = 1 /\ staleEnd)
    /\ (pollpc = "msleep" /\ idle = 0) => Resp = 0

\* C4: no two in_use records carry the same ip_suffix, and the table and the
\* broadcast device count never go beyond the table's capacity.
C4_TableDedup ==
    /\ \A s, t \in InUse(Clients) : Suffix(Clients[s]) = Suffix(Clients[t]) => s = t
    /\ Cardinality(InUse(Clients)) <= MAX_CLIENTS
    /\ DeviceCount <= MAX_CLIENTS

\* Both devices are recorded and a further Announce of the first one has
\* just been drained as a duplicate.
C4_Witness ==
    /\ Cardinality(InUse(Clients)) = 2
    /\ pollpc = "topology"
    /\ ~Pending
    /\ MailboxSuffix = Suffix(Clients[0])

\* C5: an Announce handled while the mailbox is pending leaves every byte of
\* the mailbox as it was; and a drain adds at most one record, after which
\* exactly one record carries the drained suffix unless the table was full.
C5_PendingAnnounceDropped ==
    /\ [][(AnnounceHandled /\ Pending) => NewClient' = NewClient]_vars
    /\ [][(DrainStep /\ Pending) =>
            /\ Cardinality(InUse(Clients')) <= Cardinality(InUse(Clients)) + 1
            /\ Cardinality({s \in InUse(Clients') : Suffix(Clients'[s]) = MailboxSuffix}) <= 1
            /\ (InUse(Clients) # Slots =>
                  Cardinality({s \in InUse(Clients') : Suffix(Clients'[s]) = MailboxSuffix}) = 1)]_vars

\* With the table still empty, a second Announce for the suffix that is
\* pending has been received and is about to be tested against the mailbox.
C5_Witness ==
    /\ InUse(Clients) = {}
    /\ cappc = "announce"
    /\ Pending
    /\ <<buffer.b30, buffer.b29>> = MailboxSuffix

\* C6: a drain of a pending suffix that no record carries, with a slot free,
\* changes the table in one slot only, the lowest free one, which becomes
\* in_use with that suffix, and adds one to the device count.
C6_InsertLowestFree ==
    [][(DrainStep /\ Pending /\ ~InTable(Clients, MailboxSuffix) /\ InUse(Clients) # Slots) =>
        \E s \in Slots \ InUse(Clients) :
            /\ \A t \in Slots \ InUse(Clients) : s <= t
            /\ InUse(Clients') = InUse(Clients) \cup {s}
            /\ Suffix(Clients'[s]) = MailboxSuffix
            /\ \A t \in Slots \ {s} : Clients'[t] = Clients[t]
            /\ DeviceCount' = DeviceCount + 1]_vars

\* Scenario A: the first Announce, suffix (10,20), has been drained into an
\* empty table: one record, in slot 0.
C6_Witness ==
    /\ InUse(Clients) = {0}
    /\ Suffix(Clients[0]) = <<10, 20>>
    /\ DeviceCount = 1
    /\ pollpc = "topology"
    /\ ~Pending

\* C7: a drain with every slot in use and a pending suffix that no record
\* carries leaves the table and the device count as they were; and after
\* every drain pending is false.
C7_FullTableDrain ==
    /\ [][(DrainStep /\ Pending /\ InUse(Clients) = Slots /\ ~InTable(Clients, MailboxSuffix))
            => (Clients' = Clients /\ DeviceCount' = DeviceCount)]_vars
    /\ [][DrainStep => NewClient'[0] = 0]_vars

\* The table is full and the drain has just cleared a mailbox whose suffix
\* is in no record.
C7_Witness ==
    /\ InUse(Clients) = Slots
    /\ pollpc = "topology"
    /\ ~Pending
    /\ ~InTable(Clients, MailboxSuffix)

\* C8 (as claimed): a signal delivered while the Poll Process runs and
\* poll_armed is true sets response_started when its payload is 0 and
\* frame_ended otherwise.
C8_SignalSetsFlag ==
    [][(SignalStep /\ Nga = 1) => IF siginfo'[1] = 0 THEN Resp' = 1 ELSE End' = 1]_vars

\* C9: a signal delivered while poll_armed is false changes neither flag, and
\* response_started goes from false to true only while poll_armed is true.
\* The handler as written, run in any state with poll_armed false, returns
\* both flags as it found them, whatever the payload.
C9_DisarmedSignalIgnored ==
    /\ [](Nga = 0 => \A v \in SigPayloads :
                        sig_event_handler(SIGNAL_NUMBER, v) = <<Resp, End>>)
    /\ [][(SignalStep /\ Nga = 0) => (Resp' = Resp /\ End' = End)]_vars
    /\ [][(Resp = 0 /\ Resp' = 1) => Nga = 1]_vars

\* A signal has been delivered with poll_armed false (Nga is not written
\* after the delivery).
C9_Witness == siginfo # <<>> /\ Nga = 0

\* The place of slot s among the in_use slots, counted from 0.
Rank(clients, s) == Cardinality({t \in InUse(clients) : t < s})

\* The bytes of a payload after the two time stamp fields.
AfterTimestamp(msg) == SubSeq(msg, 9, Len(msg))

EPOCH_2025 == 1735689600

\* Four bytes, low byte first.
LittleEndian32(x) == <<ByteOf(x, 0), ByteOf(x, 1), ByteOf(x, 2), ByteOf(x, 3)>>

\* C11 (as claimed): the first four bytes of a broadcast payload are, low
\* byte first, the seconds from 1 January 2025 to the moment of the
\* broadcast, and the next four are, low byte first, the nanoseconds of the
\* sub-second part, a number below 10^9.
C11_TimestampSinceReferenceDate ==
    topo # <<>> =>
        /\ SubSeq(topo, 1, 4) = LittleEndian32(sentTime[1] - EPOCH_2025)
        /\ SubSeq(topo, 5, 8) = LittleEndian32(sentTime[2] * 1000)
        /\ sentTime[2] * 1000 < 10 ^ 9

SetupPcs == {SetupCalls[k] : k \in 1 .. Len(SetupCalls)}

\* C12: a set-up call of the Capture Process that fails ends the process at
\* once with exit status 1; an ended process stays ended and never reaches
\* its receive loop; and as long as the process has not reached that loop
\* frame_ended is clear and every byte of the mailbox is 0, as main() left
\* them (the Capture Process writes no other shared cell anywhere).
C12_SetupFailureExits ==
    /\ [][setup_failed' # setup_failed =>
            (cappc' = "exited" /\ exit_status' = <<1>> /\ shared' = shared)]_vars
    /\ [][cappc = "exited" => (cappc' = "exited" /\ exit_status' = <<1>>)]_vars
    /\ [](exit_status # <<>> <=> cappc = "exited")
    /\ [](cappc \in SetupPcs \cup {"exited"} =>
            (End = 0 /\ NewClient = [k \in 0 .. 20 |-> 0]))

\* The last of the set-up calls, the attaching of the filter, has failed and
\* the process is gone, while the Poll Process has gone on to a later loop turn.
C12_Witness ==
    /\ cappc = "exited"
    /\ setup_failed = "SO_ATTACH_FILTER"
    /\ exit_status = <<1>>
    /\ last_topology # 0
    /\ pollpc = "drain"

\* C13 (as claimed): poll_armed is false whenever a device's poll begins
\* (the clearing of the flags and the arming for that device are still to
\* come), so it is true only from a device's arming to the end of that
\* device's wait and the disarming that follows it.
C13_DisarmedBetweenDevices ==
    pollpc \in {"clrResp", "clrEnd", "arm"} => Nga = 0

\* The mailbox bytes that hold the ip_suffix (1, 2) and the serial_number (3..20).
MailboxFields == 1 .. 20

\* C14 (as claimed): a byte of the mailbox's ip_suffix or serial_number
\* changes only in a step taken while pending is false; pending goes from
\* false to true only in a step of the Capture Process and from true to false
\* only in the discovery drain of the Poll Process.
C14_MailboxWrittenWhileFree ==
    /\ [][(\E k \in MailboxFields : NewClient'[k] # NewClient[k]) => NewClient[0] = 0]_vars
    /\ [][(NewClient[0] = 0 /\ NewClient'[0] # 0) => AnnounceHandled]_vars
    /\ [][(NewClient[0] # 0 /\ NewClient'[0] = 0) => DrainStep]_vars

\* The records a drain makes of an Announce that went through the mailbox
\* whole: suffix and serial number of one and the same frame.
AnnouncedRecords ==
    {[used |-> 1, next_to_last |-> f.b30, last |-> f.b29, sn |-> f.sn] :
        f \in {g \in Frames : IsAnnounce(g)}}

\* C15 (as claimed): every in_use record carries the serial number of the
\* Announce frame its ip_suffix came from.
C15_SerialMatchesSuffix ==
    \A s \in InUse(Clients) : Clients[s] \in AnnouncedRecords

\* Whose step it is: the delivery of the signal, a step of poll() (every one
\* of them moves pollpc or idle), or else a step of filter().
ByNotifier == SignalStep
ByPoll     == ~SignalStep /\ (pollpc' # pollpc \/ idle' # idle)
ByCapture  == ~SignalStep /\ pollpc' = pollpc /\ idle' = idle

\* C16 (as claimed): no shared cell is written by more than one of the Poll
\* Process, the Capture Process and the Notifier.
C16_SingleWriter ==
    \A c \in Cells : Cardinality(writers[c]) <= 1

\* C16 (amended): poll_armed is written by the Poll Process only, ip_suffix
\* and serial_number by the Capture Process only; pending is set by the
\* Capture Process only and cleared by the Poll Process only;
\* response_started is set by the Notifier only and cleared by the Poll
\* Process only; frame_ended is set by the Capture Process or the Notifier
\* and cleared by the Poll Process only.
C16_OneClearerPerCell ==
    /\ [](/\ writers["Nga"] \subseteq {"Poll"}
          /\ writers["ip_suffix"] \subseteq {"Capture"}
          /\ writers["serial_number"] \subseteq {"Capture"}
          /\ writers["pending"] \subseteq {"Capture", "Poll"}
          /\ writers["Resp"] \subseteq {"Notifier", "Poll"}
          /\ writers["End"] \subseteq {"Capture", "Notifier", "Poll"})
    /\ [][Nga' # Nga => ByPoll]_vars
    /\ [][(\E k \in MailboxFields : NewClient'[k] # NewClient[k]) => ByCapture]_vars
    /\ [][(NewClient[0] = 0 /\ NewClient'[0] # 0) => ByCapture]_vars
    /\ [][(NewClient[0] # 0 /\ NewClient'[0] = 0) => ByPoll]_vars
    /\ [][(Resp = 0 /\ Resp' # 0) => ByNotifier]_vars
    /\ [][(Resp # 0 /\ Resp' = 0) => ByPoll]_vars
    /\ [][(End = 0 /\ End' # 0) => (ByCapture \/ ByNotifier)]_vars
    /\ [][(End # 0 /\ End' = 0) => ByPoll]_vars

\* frame_ended and pending have each been written by both processes, and
\* frame_ended stands set while the Poll Process is about to clear it.
C16_Witness ==
    /\ writers["End"] = {"Capture", "Poll"}
    /\ writers["pending"] = {"Capture", "Poll"}
    /\ End = 1
    /\ pollpc = "clrEnd"

\* The Capture Process is handling a frame this host transmitted.
HandlingOutgoing ==
    \/ cappc = "recvfrom" /\ cappc' = "announce" /\ buffer'.pkttype = "OUTGOING"
    \/ cappc \in {"announce", "memcpy"} /\ buffer.pkttype = "OUTGOING" /\ ByCapture

\* C17 (as claimed): no step the Capture Process takes for a frame whose
\* capture direction is outgoing changes a shared cell: frame_ended and the
\* mailbox are as they were.
C17_OutgoingIgnored ==
    /\ [][\A f \in Frames : (f.pkttype = "OUTGOING" /\ CapRecv(f)) => shared' = shared]_vars
    /\ [][HandlingOutgoing => shared' = shared]_vars

\* The in_use slots above slot s.
InUseAfter(clients, s) == {t \in InUse(clients) : t > s}

\* C18: the Poll Process goes through its phases in one order only: the
\* discovery drain, then the broadcast test, then the round, then the drain
\* again.  The payload is built and sent in the broadcast phase only and the
\* table changes in the drain only.  The round starts at the lowest in_use
\* slot, goes from a slot whose wait has ended to the next in_use slot above
\* it, and ends when there is none; the slot does not change from the
\* clearing of the flags to the end of the wait, it is an in_use one, and the
\* wait counts from 0 in steps of one from the sending of its datagram.
C18_PhaseOrder ==
    /\ [][(ByPoll /\ pollpc' # pollpc) =>
            \/ pollpc = "drain"    /\ pollpc' = "topology"
            \/ pollpc = "topology" /\ pollpc' \in {"clrResp", "disarm"}
            \/ pollpc = "clrResp"  /\ pollpc' = "clrEnd"
            \/ pollpc = "clrEnd"   /\ pollpc' = "arm"
            \/ pollpc = "arm"      /\ pollpc' = "send"
            \/ pollpc = "send"     /\ pollpc' \in {"msleep", "report"}
            \/ pollpc = "msleep"   /\ pollpc' = "report"
            \/ pollpc = "report"   /\ pollpc' \in {"clrResp", "disarm"}
            \/ pollpc = "disarm"   /\ pollpc' = "drain"]_vars
    /\ [][(ByPoll /\ topo' # topo) => pollpc = "topology"]_vars
    /\ [][(ByPoll /\ Clients' # Clients) => pollpc = "drain"]_vars
    /\ [][(ByPoll /\ pollpc = "topology") =>
            IF InUse(Clients) = {} THEN pollpc' = "disarm"
            ELSE /\ pollpc' = "clrResp"
                 /\ i' \in InUse(Clients)
                 /\ \A t \in InUse(Clients) : i' <= t]_vars
    /\ [][(ByPoll /\ pollpc = "report") =>
            IF InUseAfter(Clients, i) = {} THEN pollpc' = "disarm"
            ELSE /\ pollpc' = "clrResp"
                 /\ i' \in InUseAfter(Clients, i)
                 /\ \A t \in InUseAfter(Clients, i) : i' <= t]_vars
    /\ [][(ByPoll /\ pollpc \in {"clrResp", "clrEnd", "arm", "send", "msleep"}) => i' = i]_vars
    /\ [](pollpc \in {"clrResp", "clrEnd", "arm", "send", "msleep", "report"} => i \in InUse(Clients))
    /\ [][(ByPoll /\ pollpc = "send") => idle' = 0]_vars
    /\ [][(ByPoll /\ pollpc = "msleep") => idle' = idle + 1]_vars

\* The second of two recorded devices is being waited for, after the wait
\* for the first has run to the idle ceiling.
C18_Witness ==
    /\ InUse(Clients) = {0, 1}
    /\ pollpc = "msleep"
    /\ i = 1
    /\ idle = 10

\* C19: as long as the Poll Process lives, a record that is in_use stays as
\* it is, flag, ip_suffix and serial_number, and the table is changed by no
\* step but the discovery drain of the Poll Process.
C19_RecordsImmutable ==
    /\ [][pollpc' # "killed" => \A s \in InUse(Clients) : Clients'[s] = Clients[s]]_vars
    /\ [][(pollpc' # "killed" /\ Clients' # Clients) => (DrainStep /\ ByPoll)]_vars

\* A drain has just put a second device into slot 1, after the broadcast
\* that listed slot 0 alone, and slot 0 is as that broadcast listed it.
C19_Witness ==
    /\ InUse(Clients) = {0, 1}
    /\ InUse(sentClients) = {0}
    /\ sentClients[0] = Clients[0]
    /\ pollpc = "topology"
    /\ ~Pending

\* C20 (as claimed): every wait of the poll round comes to its end, every
\* turn of the Poll Process's loop gets back to the discovery drain, and a
\* pending mailbox is drained.
C20_PollProgress ==
    /\ (pollpc = "msleep") ~> (pollpc = "report")
    /\ (pollpc = "topology") ~> (pollpc = "drain")
    /\ Pending ~> ~Pending

====
